---------------------------- MODULE Spec2Model ----------------------------
(***************************************************************************)
(* DyNetworkX: the interval-indexed temporal edge store                    *)
(* (dynetworkx/classes/intervalgraph.py, class IntervalGraph) and the      *)
(* run-length compressed snapshot sequence                                 *)
(* (dynetworkx/classes/snapshotgraph.py, class SnapshotGraph) as a state   *)
(* machine.  One action per public method; the query methods to_subgraph   *)
(* and to_snapshots are operators computed as the code computes them, and  *)
(* an action that records what they return.                                *)
(*                                                                         *)
(* Python objects that are shared by reference (the edge attribute dicts)  *)
(* live in an explicit heap so that aliasing is a fact of the model, not   *)
(* an assumption.                                                          *)
(***************************************************************************)
EXTENDS Integers, Sequences, FiniteSets, TLC

VARIABLES
    tree,    \* self.tree : the set of stored Interval(begin, end, (u, v))
    node,    \* self._node: node id -> attribute map
    adj,     \* self._adj, the entries keyed by a node id: node -> (Interval -> heap ref)
    adjIv,   \* self._adj, the entries keyed by an Interval: Interval -> heap ref
    heap,    \* the attribute dict objects handed to add_edge: heap ref -> attribute map
    ret,     \* what the last call did: method, outcome, arguments, returned value
    snapshots,        \* SnapshotGraph.snapshots: the list of (graph, run length)
    total_snapshots,  \* SnapshotGraph.total_snapshots: the running length
    cursors, \* the generator objects the caller holds: cursor id -> its frame
    dyn      \* the legacy DynamicGraph object: nodes, adj, its edge lists

vars == <<tree, node, adj, adjIv, heap, ret, snapshots, total_snapshots, cursors,
         dyn>>
store == <<tree, node, adj, adjIv, heap>>
seq == <<snapshots, total_snapshots>>

---------------------------------------------------------------------------
(* Bounds and input universes *)

MaxEdges == 2
MaxK == 3
MaxTotal == 4
MaxRuns == 4
MaxCalls == 3

Nodes == {1, 2}
Times == {0, 1, 2}
WindowTimes == {0, 1, 2, 3}

(* A Python dict with string keys: a function whose domain is its key set. *)
EmptyAttr == [x \in {} |-> 0]
AttrA1 == [x \in {"a"} |-> 1]
AttrA2B3 == [x \in {"a", "b"} |-> IF x = "a" THEN 2 ELSE 3]
EdgeAttrInputs == {AttrA1, AttrA2B3}

(* number_of_snapshots as a fraction <<num, den>>: an int when den = 1,    *)
(* and 5/2 stands for a float argument.                                    *)
KInputs == {<<n, 1>> : n \in 0..MaxK} \cup {<<5, 2>>}

---------------------------------------------------------------------------
(* Python and library primitives *)

(* dict.update with the precedence reversed: a key already present keeps   *)
(* its old value.                                                          *)
Update_KeepsOld(a, b) ==
    [x \in (DOMAIN a) \cup (DOMAIN b) |-> IF x \in DOMAIN a THEN a[x] ELSE b[x]]

(* dict.update: keys of b override, keys of a not in b are kept. *)
Update(a, b) ==
    [x \in (DOMAIN a) \cup (DOMAIN b) |-> IF x \in DOMAIN b THEN b[x] ELSE a[x]]

(* d[key] = val on a dict modelled as a function. *)
SetItem(d, key, val) ==
    [x \in (DOMAIN d) \cup {key} |-> IF x = key THEN val ELSE d[x]]

(* Interval(begin, end, (u, v)): a value compared on all its fields. *)
Interval(begin, end, u, v) == <<begin, end, u, v>>
IvBegin(iv) == iv[1]
IvEnd(iv) == iv[2]
IvU(iv) == iv[3]
IvV(iv) == iv[4]

(* Interval.is_null, the test on which IntervalTree.add raises ValueError. *)
IsNull(begin, end) == begin >= end

Min(S) == CHOOSE x \in S : \A y \in S : x <= y
Max(S) == CHOOSE x \in S : \A y \in S : x >= y

(* IntervalTree.begin() and .end(): 0 on an empty tree. *)
TreeBegin(t) == IF t = {} THEN 0 ELSE Min({IvBegin(iv) : iv \in t})
TreeEnd(t) == IF t = {} THEN 0 ELSE Max({IvEnd(iv) : iv \in t})

(* self.tree[begin:end], IntervalTree.overlap: half-open overlap.  The     *)
(* window is begin/den .. end/den, the stored endpoints are integers.      *)
TreeOverlap(t, begin, end, den) ==
    {iv \in t : IvBegin(iv) * den < end /\ IvEnd(iv) * den > begin}

---------------------------------------------------------------------------
(* IntervalGraph *)

interval == <<TreeBegin(tree), TreeEnd(tree)>>

Init ==
    /\ tree = {}
    /\ node = [x \in {} |-> EmptyAttr]
    /\ adj = [x \in {} |-> EmptyAttr]
    /\ adjIv = [x \in {} |-> 0]
    /\ heap = [x \in {} |-> EmptyAttr]
    /\ ret = [op |-> "init", outcome |-> "return"]
    /\ snapshots = <<>>
    /\ total_snapshots = 0
    /\ cursors = [c \in {} |-> 0]
    /\ dyn = [nodes |-> [x \in {} |-> EmptyAttr],
              adj |-> [x \in {} |-> EmptyAttr],
              lists |-> [x \in {} |-> <<>>],
              start_edges |-> <<>>,
              end_edges |-> <<>>]

add_node(n, attr) ==
    /\ IF n \notin DOMAIN node
       THEN /\ adj' = SetItem(adj, n, [x \in {} |-> 0])
            /\ node' = SetItem(node, n, attr)
       ELSE /\ node' = [node EXCEPT ![n] = Update(@, attr)]
            /\ adj' = adj
    /\ UNCHANGED <<tree, adjIv, heap>>
    /\ UNCHANGED <<seq, cursors, dyn>>
    /\ ret' = [op |-> "add_node", outcome |-> "return"]

(* The identity of the dict object that the call inserting iv receives as  *)
(* **attr.  Python allocates a fresh object per call; naming it after the  *)
(* call that brought it in keeps object identities distinct without        *)
(* ordering them.                                                          *)
NewRef(iv) == <<"attr", iv>>

(* The node table and the adjacency table after the "add nodes" block.     *)
WithNode(tbl, n, val) == IF n \in DOMAIN node THEN tbl ELSE SetItem(tbl, n, val)

(* Which way add_edge leaves: "updated" at the early return, the error    *)
(* raised around self.tree.add, or "inserted" at the last line.            *)
AddEdgeOutcome(u, v, begin, end) ==
    IF Interval(begin, end, u, v) \in tree THEN "updated"
    ELSE IF IsNull(begin, end) THEN "InvalidInterval"
    ELSE "inserted"

add_edge(u, v, begin, end, attr) ==
    LET iv_edge == Interval(begin, end, u, v)
        node1 == WithNode(WithNode(node, u, EmptyAttr), v, EmptyAttr)
        adj1 == WithNode(WithNode(adj, u, [x \in {} |-> 0]), v, [x \in {} |-> 0])
        ref == NewRef(iv_edge)
        outcome == AddEdgeOutcome(u, v, begin, end)
    IN  /\ UNCHANGED <<seq, cursors, dyn>>
        /\ CASE outcome = "updated" ->
                /\ heap' = [heap EXCEPT ![adj[u][iv_edge]] = Update(@, attr)]
                /\ UNCHANGED <<tree, node, adj, adjIv>>
                /\ ret' = [op |-> "add_edge", outcome |-> outcome, iv_edge |-> iv_edge]
             [] outcome = "InvalidInterval" ->
                /\ node' = node1
                /\ adj' = adj1
                /\ UNCHANGED <<tree, adjIv, heap>>
                /\ ret' = [op |-> "add_edge", outcome |-> outcome]
             [] outcome = "inserted" ->
                /\ Cardinality(tree) < MaxEdges
                /\ node' = node1
                /\ tree' = tree \cup {iv_edge}
                /\ heap' = SetItem(heap, ref, attr)
                /\ adj' = [adj1 EXCEPT ![u] = SetItem(@, iv_edge, ref)]
                /\ adjIv' = SetItem(adjIv, iv_edge, ref)
                /\ ret' = [op |-> "add_edge", outcome |-> outcome, iv_edge |-> iv_edge]

(* A networkx Graph as handed back by to_subgraph: node -> attribute map,  *)
(* and the undirected edges as sets of endpoints.  The attribute payload   *)
(* of an emitted edge (edge_data, edge_interval_data) and the MultiGraph   *)
(* multiplicities are not part of the view modelled here.                  *)
EdgePair(iv) == {IvU(iv), IvV(iv)}
UnionAll(S) == UNION S

(* to_subgraph keeping only the intervals that lie inside the window. *)
to_subgraph_Contained(begin, end, den, node_data) ==
    LET iedges == {iv \in tree : begin <= IvBegin(iv) * den /\ IvEnd(iv) * den <= end}
        Gedges == {EdgePair(iedge) : iedge \in iedges}
        Gnodes == UnionAll(Gedges)
    IN  [nodes |-> [n \in Gnodes |-> IF node_data THEN node[n] ELSE EmptyAttr],
         edges |-> Gedges]

(* to_subgraph taking its nodes from the first endpoint of each edge only. *)
to_subgraph_FirstEndpoint(begin, end, den, node_data) ==
    LET iedges == TreeOverlap(tree, begin, end, den)
        Gedges == {EdgePair(iedge) : iedge \in iedges}
        Gnodes == {IvU(iedge) : iedge \in iedges}
    IN  [nodes |-> [n \in Gnodes |-> IF node_data THEN node[n] ELSE EmptyAttr],
         edges |-> Gedges]

(* to_subgraph copying every stored node into the view under node_data. *)
to_subgraph_AllNodes(begin, end, den, node_data) ==
    LET iedges == TreeOverlap(tree, begin, end, den)
        Gedges == {EdgePair(iedge) : iedge \in iedges}
        Gnodes == IF node_data THEN DOMAIN node ELSE UnionAll(Gedges)
    IN  [nodes |-> [n \in Gnodes |-> IF node_data THEN node[n] ELSE EmptyAttr],
         edges |-> Gedges]

(* to_subgraph from "iedges = self.tree[begin:end]" on; the window is      *)
(* begin/den .. end/den.                                                   *)
to_subgraph(begin, end, den, node_data) ==
    LET iedges == TreeOverlap(tree, begin, end, den)
        Gedges == {EdgePair(iedge) : iedge \in iedges}
        Gnodes == UnionAll(Gedges)
    IN  [nodes |-> [n \in Gnodes |-> IF node_data THEN node[n] ELSE EmptyAttr],
         edges |-> Gedges]

(* The guard letting an empty window through. *)
SubgraphRaises_Strict(begin, end) == end < begin

(* The guard at the top of to_subgraph. *)
SubgraphRaises(begin, end) == end <= begin

(* to_subgraph taking the matched intervals out of the tree. *)
ToSubgraph_RemovesOverlap(begin, end, node_data) ==
    /\ tree' = tree \ TreeOverlap(tree, begin, end, 1)
    /\ UNCHANGED <<node, adj, adjIv, heap>>
    /\ UNCHANGED <<seq, cursors, dyn>>
    /\ IF SubgraphRaises(begin, end)
       THEN ret' = [op |-> "to_subgraph", outcome |-> "InvalidInterval"]
       ELSE ret' = [op |-> "to_subgraph", outcome |-> "return",
                    begin |-> begin, end |-> end, node_data |-> node_data,
                    G |-> to_subgraph(begin, end, 1, node_data)]

ToSubgraph(begin, end, node_data) ==
    /\ UNCHANGED store
    /\ UNCHANGED <<seq, cursors, dyn>>
    /\ IF SubgraphRaises(begin, end)
       THEN ret' = [op |-> "to_subgraph", outcome |-> "InvalidInterval"]
       ELSE ret' = [op |-> "to_subgraph", outcome |-> "return",
                    begin |-> begin, end |-> end, node_data |-> node_data,
                    G |-> to_subgraph(begin, end, 1, node_data)]

(* number_of_snapshots < 2 or type(number_of_snapshots) is not int *)
SnapshotsRaises(k) == k[1] < 2 * k[2] \/ k[2] # 1

(* The window of snapshot i (0-based), in units of 1/k:                    *)
(* begin + snapshot_len * i  ..  begin + snapshot_len * (i + 1) + addition *)
SnapBegin(k, i) == interval[1] * k + (interval[2] - interval[1]) * i
SnapEnd_NoExtension(k, i) ==
    interval[1] * k + (interval[2] - interval[1]) * (i + 1)

SnapEnd(k, i) ==
    interval[1] * k + (interval[2] - interval[1]) * (i + 1)
        + (IF i = k - 1 THEN k ELSE 0)

(* to_snapshots stops at the first window that to_subgraph rejects. *)
SnapshotsSubgraphRaises(k) ==
    \E i \in 0..(k - 1) : SubgraphRaises(SnapBegin(k, i), SnapEnd(k, i))

to_snapshots(k, node_data) ==
    [j \in 1..k |-> to_subgraph(SnapBegin(k, j - 1), SnapEnd(k, j - 1), k, node_data)]

ToSnapshots(number_of_snapshots, node_data, return_length) ==
    /\ UNCHANGED store
    /\ UNCHANGED <<seq, cursors, dyn>>
    /\ IF SnapshotsRaises(number_of_snapshots)
       THEN ret' = [op |-> "to_snapshots", outcome |-> "InvalidArgument"]
       ELSE LET k == number_of_snapshots[1]
            IN  IF SnapshotsSubgraphRaises(k)
                THEN ret' = [op |-> "to_snapshots", outcome |-> "InvalidInterval"]
                ELSE ret' = [op |-> "to_snapshots", outcome |-> "return",
                             k |-> k, node_data |-> node_data,
                             snapshots |-> to_snapshots(k, node_data),
                             windows |-> [j \in 1..k |->
                                 <<SnapBegin(k, j - 1), SnapEnd(k, j - 1)>>],
                             snapshot_len |-> IF return_length
                                 THEN <<interval[2] - interval[1], k>>
                                 ELSE <<>>]

---------------------------------------------------------------------------
(* SnapshotGraph *)

(* num_in_seq as handed to add_snapshot: <<>> is None, <<n>> the int n. *)
NoneArg == <<>>

(* ebunch inputs, each a list of (u, v, weight): the first two build the   *)
(* same graph, the third overwrites the weight of the edge.                *)
EbunchInputs ==
    { << <<1, 2, 1>> >>,
      << <<2, 1, 1>> >>,
      << <<1, 2, 1>>, <<2, 1, 7>> >> }

(* g = Graph(); g.add_weighted_edges_from(ebunch): the nodes seen, and per *)
(* undirected edge the weight written last.                                *)
Graph(ebunch) ==
    LET pair(i) == {ebunch[i][1], ebunch[i][2]}
        pairs == {pair(i) : i \in DOMAIN ebunch}
    IN  [nodes |-> UNION pairs,
         adj |-> [p \in pairs |->
                     ebunch[Max({i \in DOMAIN ebunch : pair(i) = p})][3]]]

GraphInputs == {Graph(ebunch) : ebunch \in EbunchInputs}

(* check_equality comparing object identities: a graph built by the call   *)
(* is never the stored one.                                                *)
check_equality_Identity(g1, g2) == FALSE

check_equality(g1, g2) ==
    /\ g1.adj = g2.adj
    /\ DOMAIN g1.adj = DOMAIN g2.adj
    /\ g1.nodes = g2.nodes

(* list.insert(i, x) for 0 <= i: x lands before position i, or at the end. *)
ListInsert(l, i, x) ==
    LET k == IF i < Len(l) THEN i ELSE Len(l)
    IN  SubSeq(l, 1, k) \o <<x>> \o SubSeq(l, k + 1, Len(l))

(* The while loop of insert from the state (snaps_traveled, snaps) on the  *)
(* list S.  The result is the list at exit, what was added to              *)
(* total_snapshots, and how the loop ended.  In the == branch the run put  *)
(* at snaps + 1 is examined by the next iteration with snaps_traveled      *)
(* unchanged: when snap_len equals the length just examined the same       *)
(* branch is taken again at every later iteration, and the loop never      *)
(* exits.                                                                  *)
RECURSIVE InsertLoop(_, _, _, _, _, _)
InsertLoop(S, snaps_traveled, snaps, g_to_insert, snap_len, num_in_seq) ==
    IF ~(snaps < Len(S))
    THEN [snapshots |-> S, added |-> 0, outcome |-> "return"]
    ELSE LET snap == S[snaps + 1]
         IN  IF snaps_traveled + snap[2] < num_in_seq
             THEN InsertLoop(S, snaps_traveled + snap[2], (snaps + 1) + 1,
                             g_to_insert, snap_len, num_in_seq)
             ELSE IF snaps_traveled + snap[2] = num_in_seq
             THEN IF snap_len = snap[2]
                  THEN [snapshots |-> S, added |-> 0, outcome |-> "diverges"]
                  ELSE InsertLoop(ListInsert(S, snaps + 1, <<g_to_insert, snap_len>>),
                                  snaps_traveled, snaps + 1,
                                  g_to_insert, snap_len, num_in_seq)
             ELSE LET iters == num_in_seq - snaps_traveled
                      S1 == [S EXCEPT ![snaps + 1] = <<snap[1], iters>>]
                      S2 == ListInsert(S1, snaps + 1, <<g_to_insert, snap_len>>)
                      S3 == ListInsert(S2, snaps + 2, <<snap[1], snap[2] - iters>>)
                 IN  [snapshots |-> S3, added |-> snap_len, outcome |-> "return"]

(* insert(g_to_insert, snap_len, num_in_seq).  A call whose loop never     *)
(* exits has no state after it: the sequence is kept as it was and         *)
(* ret.outcome = "diverges" marks that the program is stuck in the call.   *)
insert(g_to_insert, snap_len, num_in_seq) ==
    LET r == InsertLoop(snapshots, 0, 0, g_to_insert, snap_len, num_in_seq)
    IN  /\ UNCHANGED <<store, cursors, dyn>>
        /\ IF r.outcome = "diverges"
           THEN UNCHANGED seq
           ELSE /\ snapshots' = r.snapshots
                /\ total_snapshots' = total_snapshots + r.added
        /\ ret' = [op |-> "insert", outcome |-> r.outcome]

(* Which branch add_snapshot takes: `not num_in_seq` holds for None and 0. *)
AddSnapshotBranch(num_in_seq) ==
    IF num_in_seq = NoneArg THEN "append"
    ELSE IF num_in_seq[1] = 0 \/ num_in_seq[1] = total_snapshots + 1 THEN "append"
    ELSE IF num_in_seq[1] > total_snapshots THEN "extend"
    ELSE "insert"

add_snapshot(ebunch, num_in_seq) ==
    LET g == Graph(ebunch)
        n == Len(snapshots)
        branch == AddSnapshotBranch(num_in_seq)
    IN  CASE branch = "append" ->
             /\ UNCHANGED <<store, cursors, dyn>>
             /\ IF n > 0 /\ check_equality(g, snapshots[n][1])
                THEN snapshots' = [snapshots EXCEPT ![n] = <<@[1], @[2] + 1>>]
                ELSE snapshots' = Append(snapshots, <<g, 1>>)
             /\ total_snapshots' = total_snapshots + 1
             /\ ret' = [op |-> "add_snapshot", outcome |-> "return"]
          [] branch = "extend" ->
             /\ UNCHANGED <<store, cursors, dyn>>
             /\ IF n = 0
                THEN /\ UNCHANGED seq
                     /\ ret' = [op |-> "add_snapshot", outcome |-> "IndexError"]
                ELSE /\ snapshots' = Append(
                            [snapshots EXCEPT ![n] =
                                <<@[1], @[2] + num_in_seq[1] - total_snapshots - 1>>],
                            <<g, 1>>)
                     /\ total_snapshots' =
                            total_snapshots + (num_in_seq[1] - total_snapshots)
                     /\ ret' = [op |-> "add_snapshot", outcome |-> "return"]
          [] branch = "insert" ->
             insert(g, 1, num_in_seq[1])

(* The frame of a generator object made by generator(start, end): its     *)
(* arguments, its locals, and where it stands: "new" before the first      *)
(* next(), "suspended" at the yield, "done" once it has returned.          *)
NewFrame(start, end) ==
    [start |-> start, end |-> end, snaps_traveled |-> 0, snaps |-> 0,
     iters |-> 0, pc |-> "new"]

(* The body of generator run on the list S from frame f until the next     *)
(* yield or the return.  at = "outer" is the test of the outer while,      *)
(* "inner" the test of the inner while, "resume" the statement after the   *)
(* yield.  The result is the frame left behind and what was yielded.       *)
RECURSIVE GenRun(_, _, _)
GenRun(S, f, at) ==
    CASE at = "outer" ->
         IF ~(f.snaps < Len(S))
         THEN [frame |-> [f EXCEPT !.pc = "done"], yield |-> <<>>]
         ELSE IF f.snaps_traveled + S[f.snaps + 1][2] < f.start
         THEN GenRun(S, [f EXCEPT !.snaps_traveled = @ + S[f.snaps + 1][2],
                                  !.snaps = @ + 1, !.iters = 0], "outer")
         ELSE GenRun(S, [f EXCEPT !.iters = 0], "inner")
      [] at = "inner" ->
         IF f.iters < S[f.snaps + 1][2]
         THEN IF f.snaps_traveled < f.end /\ f.snaps_traveled >= f.start
              THEN [frame |-> [f EXCEPT !.pc = "suspended"],
                    yield |-> <<S[f.snaps + 1][1]>>]
              ELSE GenRun(S, f, "resume")
         ELSE GenRun(S, [f EXCEPT !.snaps = @ + 1], "outer")
      [] at = "resume" ->
         IF f.snaps_traveled + 1 >= f.end
         THEN [frame |-> [f EXCEPT !.snaps_traveled = @ + 1, !.pc = "done"],
               yield |-> <<>>]
         ELSE GenRun(S, [f EXCEPT !.snaps_traveled = @ + 1, !.iters = @ + 1],
                     "inner")

(* next() on a generator object: the frame after it and what it yielded;   *)
(* <<>> stands for StopIteration.                                          *)
Resume(S, f) ==
    IF f.pc = "new" THEN GenRun(S, f, "outer")
    ELSE IF f.pc = "suspended" THEN GenRun(S, f, "resume")
    ELSE [frame |-> f, yield |-> <<>>]

(* list(g) for a generator object with frame f. *)
RECURSIVE Drain(_, _)
Drain(S, f) ==
    LET r == Resume(S, f)
    IN  IF r.yield = <<>> THEN <<>> ELSE r.yield \o Drain(S, r.frame)

(* A generator whose range excludes start. *)
generator_StartExclusive(start, end) ==
    Drain(snapshots, NewFrame(start + 1, end))

(* list(self.generator(start, end)) *)
generator(start, end) == Drain(snapshots, NewFrame(start, end))

Generator(start, end) ==
    /\ UNCHANGED <<store, seq, cursors, dyn>>
    /\ ret' = [op |-> "generator", outcome |-> "return",
               start |-> start, end |-> end, views |-> generator(start, end)]

(* g = self.generator(start, end), kept by the caller under the name c;   *)
(* out is the list of what the caller has pulled from it so far.           *)
NewCursor(c, start, end) ==
    /\ cursors' = SetItem(cursors, c, [frame |-> NewFrame(start, end), out |-> <<>>])
    /\ UNCHANGED <<store, seq, dyn>>
    /\ ret' = [op |-> "new_cursor", outcome |-> "return"]

(* next(g) on generator objects that keep one position between them: the   *)
(* frame is run from where the furthest generator stands.                  *)
Pull_SharedPosition(c) ==
    LET far == CHOOSE x \in DOMAIN cursors :
                   \A y \in DOMAIN cursors :
                       cursors[y].frame.snaps_traveled <= cursors[x].frame.snaps_traveled
        shared == [cursors[c].frame EXCEPT
                       !.snaps_traveled = cursors[far].frame.snaps_traveled,
                       !.snaps = cursors[far].frame.snaps,
                       !.iters = cursors[far].frame.iters]
        r == Resume(snapshots, IF cursors[c].frame.pc = "suspended"
                               THEN shared ELSE cursors[c].frame)
    IN  /\ c \in DOMAIN cursors
        /\ cursors' = [cursors EXCEPT ![c] =
                           [frame |-> r.frame, out |-> @.out \o r.yield]]
        /\ UNCHANGED <<store, seq, dyn>>
        /\ ret' = [op |-> "next",
                   outcome |-> IF r.yield = <<>> THEN "StopIteration" ELSE "return"]

(* next(g) for the generator the caller keeps under the name c. *)
Pull(c) ==
    LET r == Resume(snapshots, cursors[c].frame)
    IN  /\ c \in DOMAIN cursors
        /\ cursors' = [cursors EXCEPT ![c] =
                           [frame |-> r.frame, out |-> @.out \o r.yield]]
        /\ UNCHANGED <<store, seq, dyn>>
        /\ ret' = [op |-> "next",
                   outcome |-> IF r.yield = <<>> THEN "StopIteration" ELSE "return"]

(* sbunch and nbunch inputs: lists of snapshot indices, and lists of one   *)
(* node list per snapshot (node 3 is in no graph).                         *)
SbunchInputs == {<<0>>, <<1>>, <<0, 1>>, <<2, 0>>, <<0, 3>>, <<1, 2, 3>>}
NbunchInputs == {<< <<3>> >>, << <<1>> >>, << <<3>>, <<3>> >>, << <<3>>, <<1, 2>> >>}

SeqMin(l) == Min({l[i] : i \in DOMAIN l})
SeqMax(l) == Max({l[i] : i \in DOMAIN l})

(* get(sbunch): the generator over [min, max), then                        *)
(* graph_list[index - min_index] for every index; a list index past the    *)
(* end raises IndexError.                                                  *)
get(sbunch) ==
    LET min_index == SeqMin(sbunch)
        graph_list == generator(min_index, SeqMax(sbunch))
    IN  IF \E i \in DOMAIN sbunch : sbunch[i] - min_index >= Len(graph_list)
        THEN [outcome |-> "IndexError"]
        ELSE [outcome |-> "return",
              graph_list |-> [i \in DOMAIN sbunch |->
                                 graph_list[sbunch[i] - min_index + 1]]]

Get(sbunch) ==
    /\ UNCHANGED <<store, seq, cursors, dyn>>
    /\ ret' = [op |-> "get", sbunch |-> sbunch] @@ get(sbunch)

(* snapshot.subgraph(node_list): the graph induced on the listed nodes     *)
(* that the snapshot has.                                                  *)
InducedSubgraph(g, node_list) ==
    LET keep == g.nodes \cap {node_list[i] : i \in DOMAIN node_list}
        pairs == {p \in DOMAIN g.adj : p \subseteq keep}
    IN  [nodes |-> keep, adj |-> [p \in pairs |-> g.adj[p]]]

(* add_snapshot on a SnapshotGraph sg = [snapshots, total_snapshots] made  *)
(* by the call, with a graph where an ebunch is expected and no            *)
(* num_in_seq: add_weighted_edges_from unpacks each element of its         *)
(* argument as (u, v, weight), and the elements of a graph are its nodes,  *)
(* so a graph with a node raises TypeError and an empty one adds nothing.  *)
AddSnapshotOfGraph(sg, view) ==
    IF view.nodes # {} THEN [outcome |-> "TypeError"]
    ELSE LET g == Graph(<<>>)
             n == Len(sg.snapshots)
         IN  [outcome |-> "return",
              snapshots |-> IF n > 0 /\ check_equality(g, sg.snapshots[n][1])
                            THEN [sg.snapshots EXCEPT ![n] = <<@[1], @[2] + 1>>]
                            ELSE Append(sg.snapshots, <<g, 1>>),
              total_snapshots |-> sg.total_snapshots + 1]

(* for snapshot, node_list in zip(snapshot_graphs, nbunch):                *)
(*     subgraph.add_snapshot(snapshot.subgraph(node_list))                 *)
RECURSIVE ZipLoop(_, _, _, _)
ZipLoop(sg, snapshot_graphs, nbunch, i) ==
    IF i > Len(snapshot_graphs) \/ i > Len(nbunch) THEN sg
    ELSE LET r == AddSnapshotOfGraph(sg, InducedSubgraph(snapshot_graphs[i], nbunch[i]))
         IN  IF r.outcome # "return" THEN r
             ELSE ZipLoop(r, snapshot_graphs, nbunch, i + 1)

(* subgraph(nbunch, sbunch).  With one element in nbunch and more than one *)
(* index between min and max, nbunch itself is handed to                   *)
(* snapshot.subgraph: its element is a list, which networkx rejects as a   *)
(* node (NetworkXError) at the first snapshot.                             *)
subgraph(nbunch, sbunch) ==
    LET min_index == SeqMin(sbunch)
        max_index == SeqMax(sbunch)
        snapshot_graphs == generator(min_index, max_index)
        new == [outcome |-> "return", snapshots |-> <<>>, total_snapshots |-> 0]
    IN  IF Len(nbunch) = 1 /\ max_index - min_index > 1
        THEN IF snapshot_graphs # <<>> THEN [outcome |-> "NetworkXError"] ELSE new
        ELSE ZipLoop(new, snapshot_graphs, nbunch, 1)

SubgraphOfSeq(nbunch, sbunch) ==
    /\ UNCHANGED <<store, seq, cursors, dyn>>
    /\ ret' = [op |-> "subgraph", lists |-> Len(nbunch),
               selected |-> Len(generator(SeqMin(sbunch), SeqMax(sbunch)))]
                  @@ subgraph(nbunch, sbunch)

---------------------------------------------------------------------------
(* The legacy DynamicGraph (networkx/classes/dynamicgraph.py) *)

(* dyn.nodes is self.nodes, dyn.adj is self.adj with each adj[u][v] a      *)
(* reference into dyn.lists, the list objects made by add_dynamic_edge.    *)

(* The DynamicEdge object made by the n-th add_edge call, named after the  *)
(* call so that the objects of different calls are different objects.      *)
DynamicEdge(n, u, v, start_time, end_time) ==
    [call |-> n, u |-> u, v |-> v,
     start_time |-> start_time, end_time |-> end_time]

(* DynamicGraph.add_node(n) without attributes, on the tables (nodes, adj). *)
DynamicGraph_add_node(d, n) ==
    IF n \notin DOMAIN d.nodes
    THEN [d EXCEPT !.nodes = SetItem(@, n, EmptyAttr),
                   !.adj = SetItem(@, n, [x \in {} |-> 0])]
    ELSE d

(* add_dynamic_edge(u, v, dynamic_edge), statement by statement: the two   *)
(* add_node calls, the new list stored under adj[u][v] and adj[v][u], the  *)
(* append through adj[u][v], the append through adj[v][u], and the         *)
(* appends to start_edges and end_edges.                                   *)
DynamicGraph_add_dynamic_edge(u, v, dynamic_edge) ==
    LET d1 == IF u \notin DOMAIN dyn.nodes THEN DynamicGraph_add_node(dyn, u) ELSE dyn
        d2 == IF v \notin DOMAIN d1.nodes THEN DynamicGraph_add_node(d1, v) ELSE d1
        edge_list == <<"edge_list", u, v>>
        d3 == IF u \notin DOMAIN d2.adj[v]
              THEN LET a1 == [d2.adj EXCEPT ![u] = SetItem(@, v, edge_list)]
                       a2 == [a1 EXCEPT ![v] = SetItem(@, u, edge_list)]
                   IN  [d2 EXCEPT !.lists = SetItem(@, edge_list, <<>>), !.adj = a2]
              ELSE d2
        d4 == [d3 EXCEPT !.lists[d3.adj[u][v]] = Append(@, dynamic_edge)]
        d5 == [d4 EXCEPT !.lists[d4.adj[v][u]] = Append(@, dynamic_edge)]
    IN  [d5 EXCEPT !.start_edges = Append(@, dynamic_edge),
                   !.end_edges = Append(@, dynamic_edge)]

(* DynamicGraph.add_edge(u, v, start_time, end_time) *)
DynamicGraph_add_edge(u, v, start_time, end_time) ==
    /\ dyn' = DynamicGraph_add_dynamic_edge(u, v,
                  DynamicEdge(Len(dyn.start_edges) + 1, u, v, start_time, end_time))
    /\ UNCHANGED <<store, seq, cursors>>
    /\ ret' = [op |-> "DynamicGraph.add_edge", outcome |-> "return"]

---------------------------------------------------------------------------
(* Specifications *)

AddNode == \E n \in Nodes : add_node(n, EmptyAttr)

AddEdge == \E u, v \in Nodes, begin, end \in Times, attr \in EdgeAttrInputs :
               add_edge(u, v, begin, end, attr)

(* The mutating core of the store: every attribute input, no queries. *)
Next == AddNode \/ AddEdge

Spec == Init /\ [][Next]_vars

AddPlainEdge == \E u, v \in Nodes, begin, end \in Times :
                    add_edge(u, v, begin, end, AttrA1)

Subgraph == \E begin, end \in WindowTimes, node_data \in BOOLEAN :
                ToSubgraph(begin, end, node_data)

Snapshots == \E k \in KInputs, node_data, return_length \in BOOLEAN :
                 ToSnapshots(k, node_data, return_length)

(* The store with its queries: one attribute input, every window. *)
NextView == AddNode \/ AddPlainEdge \/ Subgraph \/ Snapshots

SpecView == Init /\ [][NextView]_vars

NodeAttrInputs == {EmptyAttr, AttrA1, AttrA2B3}

AddNodeWithAttr == \E n \in Nodes, attr \in NodeAttrInputs : add_node(n, attr)

AddUnitEdge == \E u, v \in Nodes, end \in {0, 1} : add_edge(u, v, 0, end, AttrA1)

(* The node table: every node attribute input, edges over 0..1 only. *)
NextNode == AddNodeWithAttr \/ AddUnitEdge

SpecNode == Init /\ [][NextNode]_vars

(* The two edges of the documented scenario, as (u, v, begin, end). *)
ScenarioEdges == {<<1, 2, 0, 5>>, <<2, 3, 3, 8>>}
ScenarioWindows == {<<0, 4>>, <<4, 9>>, <<5, 5>>}

AddScenarioEdge == \E e \in ScenarioEdges, attr \in EdgeAttrInputs :
                       add_edge(e[1], e[2], e[3], e[4], attr)

ScenarioSubgraph == \E w \in ScenarioWindows, node_data \in BOOLEAN :
                        ToSubgraph(w[1], w[2], node_data)

(* The scenario's edges in any order and with any attributes, followed by  *)
(* the queries.                                                            *)
NextScenario == AddScenarioEdge \/ ScenarioSubgraph \/ Snapshots

SpecScenario == Init /\ [][NextScenario]_vars

NumInSeqInputs == {NoneArg} \cup {<<n>> : n \in (-1)..(MaxTotal + 1)}
SnapLens == {1, 2}

(* A call is made while the sequence is within the bounds and no earlier   *)
(* call is stuck.                                                          *)
SeqCallable ==
    /\ ret.outcome # "diverges"
    /\ total_snapshots < MaxTotal
    /\ Len(snapshots) < MaxRuns

AddSnapshot ==
    /\ SeqCallable
    /\ \E ebunch \in EbunchInputs, num_in_seq \in NumInSeqInputs :
           add_snapshot(ebunch, num_in_seq)

Insert ==
    /\ SeqCallable
    /\ \E g \in GraphInputs, snap_len \in SnapLens,
          num_in_seq \in (-1)..(MaxTotal + 1) :
           insert(g, snap_len, num_in_seq)

(* The snapshot sequence under every call of add_snapshot and insert. *)
NextSeq == AddSnapshot \/ Insert

SpecSeq == Init /\ [][NextSeq]_vars

CursorWindows == {<<s, e>> \in (0..5) \X (0..5) : s <= e}

ListGenerator == \E w \in CursorWindows : Generator(w[1], w[2])

GetGraphs == \E sbunch \in SbunchInputs : Get(sbunch)

SubgraphSeq == \E nbunch \in NbunchInputs, sbunch \in SbunchInputs :
                   SubgraphOfSeq(nbunch, sbunch)

(* The snapshot sequence with its read operations. *)
NextQuery == AddSnapshot \/ ListGenerator \/ GetGraphs \/ SubgraphSeq

SpecQuery == Init /\ [][NextQuery]_vars

CursorIds == {1, 2}
PullWindows == {<<0, 2>>, <<1, 4>>, <<2, 5>>}

(* Appends while the caller holds no generator: the sequence is not        *)
(* modified under a live generator.                                        *)
AppendSnapshot ==
    /\ DOMAIN cursors = {}
    /\ total_snapshots < MaxTotal
    /\ \E ebunch \in EbunchInputs : add_snapshot(ebunch, NoneArg)

CreateCursor == \E c \in CursorIds, w \in PullWindows : NewCursor(c, w[1], w[2])

PullCursor == \E c \in CursorIds : Pull(c)

(* Two generators over one sequence, pulled in any interleaving. *)
NextCursors == AppendSnapshot \/ CreateCursor \/ PullCursor

SpecCursors == Init /\ [][NextCursors]_vars

DynamicTimes == {<<0, 1>>, <<1, 2>>}

DynamicAddEdge ==
    /\ Len(dyn.start_edges) < MaxCalls
    /\ \E u, v \in Nodes, t \in DynamicTimes : DynamicGraph_add_edge(u, v, t[1], t[2])

(* The legacy store under add_edge calls. *)
NextDynamic == DynamicAddEdge

SpecDynamic == Init /\ [][NextDynamic]_vars

---------------------------------------------------------------------------
(* Properties of the mutating core (Spec) *)

(* The attribute map read through u's side of the adjacency table. *)
EdgeAttr(iv) == heap[adj[IvU(iv)][iv]]

(* C1: for every stored edge (u,v,begin,end) the adjacency table has an    *)
(* entry on u's side and an entry on v's side, and both reference the same *)
(* attribute object.                                                       *)
C1_BothSidesShareAttr ==
    \A iv \in tree :
        /\ IvU(iv) \in DOMAIN adj /\ IvV(iv) \in DOMAIN adj
        /\ iv \in DOMAIN adj[IvU(iv)]
        /\ iv \in DOMAIN adj[IvV(iv)]
        /\ adj[IvU(iv)][iv] = adj[IvV(iv)][iv]

(* a1 overridden key by key by a2, written out independently of Update. *)
Overridden(a1, a2) ==
    [x \in {y \in {"a", "b"} : y \in DOMAIN a1 \/ y \in DOMAIN a2} |->
        IF x \in DOMAIN a2 THEN a2[x] ELSE a1[x]]

(* C2: add_edge is idempotent on the interval set.  The call that first    *)
(* brings (u,v,begin,end) in stores it once with attributes a1; a further  *)
(* call for the same (u,v,begin,end) with a2 leaves the set of stored      *)
(* intervals as it was, that interval stored exactly once, and the edge's  *)
(* attributes equal to the former ones overridden key by key by a2.        *)
C2_AddEdgeIdempotent ==
    [][\A u, v \in Nodes, begin, end \in Times, a \in EdgeAttrInputs :
         LET iv == Interval(begin, end, u, v)
         IN  (begin < end /\ add_edge(u, v, begin, end, a)) =>
                 IF iv \in tree
                 THEN /\ tree' = tree
                      /\ Cardinality(tree') = Cardinality(tree)
                      /\ Cardinality({i \in tree' : i = iv}) = 1
                      /\ EdgeAttr(iv)' = Overridden(EdgeAttr(iv), a)
                 ELSE /\ tree' = tree \cup {iv}
                      /\ Cardinality({i \in tree' : i = iv}) = 1
                      /\ EdgeAttr(iv)' = a]_vars

(* C2 witness: an update of an existing edge has run and left {a:1, b:3},  *)
(* which only {a:2, b:3} overridden by {a:1} produces.                     *)
C2_Witness ==
    /\ ret.op = "add_edge" /\ ret.outcome = "updated"
    /\ \E iv \in tree :
           EdgeAttr(iv) = [x \in {"a", "b"} |-> IF x = "a" THEN 1 ELSE 3]

(* C3: add_edge(v,u,begin,end) issued when (u,v,begin,end) is stored, with *)
(* u # v, is recognised as the same edge: no interval is inserted and the  *)
(* attributes are merged into the existing edge.                           *)
C3_UnorderedIdentity ==
    [][\A u, v \in Nodes, begin, end \in Times, a \in EdgeAttrInputs :
         LET iv == Interval(begin, end, u, v)
         IN  (u # v /\ begin < end /\ iv \in tree /\ add_edge(v, u, begin, end, a)) =>
                 /\ Cardinality(tree') = Cardinality(tree)
                 /\ EdgeAttr(iv)' = Overridden(EdgeAttr(iv), a)]_vars

(* C4: a rejected add_edge (begin >= end) leaves the node table, the       *)
(* adjacency table and the set of stored intervals as they were.           *)
C4_RejectedAddEdgeNoChange ==
    [][\A u, v \in Nodes, begin, end \in Times, a \in EdgeAttrInputs :
         (begin >= end /\ add_edge(u, v, begin, end, a)) =>
             /\ node' = node /\ adj' = adj /\ adjIv' = adjIv /\ tree' = tree]_vars

---------------------------------------------------------------------------
(* Properties of the store with its queries (SpecView) *)

(* C5: invalid input is always rejected: add_edge with begin >= end and    *)
(* to_subgraph with begin >= end leave with InvalidInterval, to_snapshots  *)
(* with a count that is no integer or is below 2 leaves with               *)
(* InvalidArgument, and a call that left that way handed back no result.   *)
C5_InvalidInputRejected ==
    /\ \A u, v \in Nodes, begin, end \in Times :
           begin >= end => AddEdgeOutcome(u, v, begin, end) = "InvalidInterval"
    /\ \A begin, end \in WindowTimes :
           begin >= end => SubgraphRaises(begin, end)
    /\ \A k \in KInputs :
           (k[2] # 1 \/ k[1] < 2) => SnapshotsRaises(k)
    /\ ret.outcome \in {"InvalidInterval", "InvalidArgument"} =>
           DOMAIN ret = {"op", "outcome"}
    /\ ret.op = "to_subgraph" /\ ret.outcome = "return" => ret.begin < ret.end
    /\ ret.op = "to_snapshots" /\ ret.outcome = "return" => ret.k >= 2
    /\ \A iv \in tree : IvBegin(iv) < IvEnd(iv)

(* C5 witness: to_snapshots has rejected its count on a store with edges. *)
C5_Witness ==
    ret.op = "to_snapshots" /\ ret.outcome = "InvalidArgument" /\ tree # {}

(* Every stored interval is reported by the overlap query over its own     *)
(* [begin, end) and by the view over that window, with both endpoints in   *)
(* the view's node set.                                                    *)
StoredReported ==
    \A iv \in tree, node_data \in BOOLEAN :
        LET G == to_subgraph(IvBegin(iv), IvEnd(iv), 1, node_data)
        IN  /\ ~SubgraphRaises(IvBegin(iv), IvEnd(iv))
            /\ iv \in TreeOverlap(tree, IvBegin(iv), IvEnd(iv), 1)
            /\ {IvU(iv), IvV(iv)} \in G.edges
            /\ IvU(iv) \in DOMAIN G.nodes /\ IvV(iv) \in DOMAIN G.nodes

(* C6: once add_edge(u,v,begin,end) has succeeded, the interval is stored  *)
(* and reported by the overlap query and the view over [begin,end), in     *)
(* that state and after any later add_node, add_edge, to_subgraph or       *)
(* to_snapshots call; stored nodes and intervals are never removed.        *)
C6_StoredStaysReported ==
    [][/\ tree \subseteq tree'
       /\ DOMAIN node \subseteq DOMAIN node'
       /\ (ret'.op = "add_edge" /\ ret'.outcome \in {"inserted", "updated"}) =>
              ret'.iv_edge \in tree'
       /\ StoredReported']_vars

(* C6 witness: a query ran after the edges were stored, and left them. *)
C6_Witness ==
    /\ ret.op = "to_snapshots" /\ ret.outcome = "return"
    /\ Cardinality(tree) = MaxEdges
    /\ StoredReported

(* The endpoint pairs of the stored intervals i with i.begin < end and     *)
(* i.end > begin.                                                          *)
OverlapPairs(begin, end) ==
    {{i[3], i[4]} : i \in {j \in tree : j[1] < end /\ j[2] > begin}}

(* C7: the edges of the view over [begin, end) are exactly the endpoint    *)
(* pairs of the stored intervals i with i.begin < end and i.end > begin.   *)
C7_ViewEdgesAreOverlap ==
    /\ \A begin, end \in WindowTimes, node_data \in BOOLEAN :
           begin < end =>
               to_subgraph(begin, end, 1, node_data).edges = OverlapPairs(begin, end)
    /\ (ret.op = "to_subgraph" /\ ret.outcome = "return") =>
           ret.G.edges = OverlapPairs(ret.begin, ret.end)

(* C7 witness: a view was returned for a window that one stored interval   *)
(* only touches (left out) and another overlaps without lying inside it    *)
(* (emitted).                                                              *)
C7_Witness ==
    /\ ret.op = "to_subgraph" /\ ret.outcome = "return"
    /\ \E i, j \in tree :
           /\ {i[3], i[4]} # {j[3], j[4]}
           /\ i[2] = ret.begin
           /\ j[1] < ret.begin /\ j[2] > ret.begin /\ j[2] < ret.end
           /\ ret.G.edges = {{j[3], j[4]}}

(* C8: the node set of a view is the union of the endpoints of its edges;  *)
(* a stored node without an edge overlapping the window is not in it,      *)
(* with or without node_data.                                              *)
C8_ViewNodesAreEndpoints ==
    /\ \A begin, end \in WindowTimes, node_data \in BOOLEAN :
           begin < end =>
               LET G == to_subgraph(begin, end, 1, node_data)
               IN  /\ DOMAIN G.nodes = UNION G.edges
                   /\ \A n \in DOMAIN node :
                          (\A i \in tree : (i[1] < end /\ i[2] > begin) =>
                                               (n # i[3] /\ n # i[4]))
                              => n \notin DOMAIN G.nodes
    /\ (ret.op = "to_subgraph" /\ ret.outcome = "return") =>
           DOMAIN ret.G.nodes = UNION ret.G.edges

(* C8 witness: a view with node_data was returned that has an edge and     *)
(* leaves out a stored node.                                               *)
C8_Witness ==
    /\ ret.op = "to_subgraph" /\ ret.outcome = "return" /\ ret.node_data
    /\ ret.G.edges # {}
    /\ \E n \in DOMAIN node : n \notin DOMAIN ret.G.nodes

(* The smallest begin and the largest end of the stored intervals. *)
MinBegin == CHOOSE b \in {i[1] : i \in tree} : \A i \in tree : b <= i[1]
MaxEnd == CHOOSE e \in {i[2] : i \in tree} : \A i \in tree : e >= i[2]

(* C9: on a store with an edge, to_snapshots(k) with k >= 2 returns, and   *)
(* what it returns is exactly k views; view i is the view over the window  *)
(* minBegin + w*i .. minBegin + w*(i+1) with w = (maxEnd - minBegin)/k,    *)
(* the last window's end raised by one; each window begins where the one   *)
(* before ends, the first begins at minBegin and the last, before its      *)
(* extension, ends at maxEnd.  Windows are in units of 1/k.                *)
C9_SnapshotWindows ==
    /\ tree # {} =>
           \A k \in 2..MaxK :
               ~SnapshotsRaises(<<k, 1>>) /\ ~SnapshotsSubgraphRaises(k)
    /\ (ret.op = "to_snapshots" /\ ret.outcome = "return") =>
           LET k == ret.k
               wk == MaxEnd - MinBegin
               W == ret.windows
           IN  /\ tree # {}
               /\ Len(ret.snapshots) = k /\ Len(W) = k
               /\ \A i \in 1..k :
                      /\ W[i][1] = MinBegin * k + wk * (i - 1)
                      /\ W[i][2] = MinBegin * k + wk * i + (IF i = k THEN k ELSE 0)
                      /\ ret.snapshots[i] = to_subgraph(W[i][1], W[i][2], k, ret.node_data)
               /\ \A i \in 2..k : W[i][1] = W[i - 1][2]
               /\ W[1][1] = MinBegin * k
               /\ W[k][2] - k = MaxEnd * k

(* C9 witness: three snapshots were returned over a span that three does   *)
(* not divide.                                                             *)
C9_Witness ==
    /\ ret.op = "to_snapshots" /\ ret.outcome = "return" /\ ret.k = 3
    /\ Cardinality(tree) = 2
    /\ MaxEnd - MinBegin = 2

---------------------------------------------------------------------------
(* The documented scenario (SpecScenario) *)

ScenarioReached ==
    /\ tree = {Interval(0, 5, 1, 2), Interval(3, 8, 2, 3)}
    /\ ret.op = "to_snapshots" /\ ret.outcome = "return" /\ ret.k = 2

(* C10 as stated: after add_edge(1,2,0,5) and add_edge(2,3,3,8),           *)
(* to_snapshots(2) uses the windows [0,4) and [4,9); the first view holds  *)
(* edge (1,2) only and the second holds (1,2) and (2,3).                   *)
C10_ScenarioAsStated ==
    ScenarioReached =>
        /\ ret.windows = <<<<0, 8>>, <<8, 18>>>>
        /\ ret.snapshots[1].edges = {{1, 2}}
        /\ ret.snapshots[2].edges = {{1, 2}, {2, 3}}

(* C10 amended: the windows are [0,4) and [4,9) (in halves: 0..8, 8..18),  *)
(* and both views hold edge (1,2) and edge (2,3): edge (2,3) begins at 3,  *)
(* before the first window ends at 4.                                      *)
C10_ScenarioBothViews ==
    ScenarioReached =>
        /\ ret.windows = <<<<0, 8>>, <<8, 18>>>>
        /\ ret.snapshots[1].edges = {{1, 2}, {2, 3}}
        /\ ret.snapshots[2].edges = {{1, 2}, {2, 3}}
        /\ DOMAIN ret.snapshots[1].nodes = {1, 2, 3}

C10_Witness == ScenarioReached /\ Len(ret.snapshots) = 2

---------------------------------------------------------------------------
(* Purity of the queries (SpecView) and the node table (SpecNode) *)

(* C11: to_subgraph and to_snapshots, returning or raising, leave the node *)
(* table, the adjacency table, the attribute maps and the stored intervals *)
(* as they were.                                                           *)
C11_QueriesLeaveStore ==
    [][ret'.op \in {"to_subgraph", "to_snapshots"} =>
           /\ tree' = tree /\ node' = node
           /\ adj' = adj /\ adjIv' = adjIv /\ heap' = heap]_vars

(* C11 witness: a view with an edge was returned from a full store. *)
C11_Witness ==
    /\ ret.op = "to_subgraph" /\ ret.outcome = "return"
    /\ Cardinality(tree) = MaxEdges
    /\ ret.G.edges # {}

(* C12: add_node(n, attrs) never fails; it creates n with attrs when n is  *)
(* absent and otherwise merges attrs into n's attributes key by key, the   *)
(* later write winning and the other keys kept; the other nodes'           *)
(* attributes and the stored intervals are left alone.                     *)
C12_AddNodeCreateOrMerge ==
    [][\A n \in Nodes, attr \in NodeAttrInputs :
         add_node(n, attr) =>
             /\ ret'.outcome = "return"
             /\ DOMAIN node' = DOMAIN node \cup {n}
             /\ node'[n] = IF n \in DOMAIN node
                           THEN Overridden(node[n], attr)
                           ELSE attr
             /\ \A m \in DOMAIN node : m # n => node'[m] = node[m]
             /\ tree' = tree]_vars

(* C12 witness: add_node has merged into a node that an edge is stored on, *)
(* leaving {a:1, b:3}: a key kept and a key overridden.                    *)
C12_Witness ==
    /\ ret.op = "add_node"
    /\ tree # {}
    /\ \E n \in DOMAIN node :
           node[n] = [x \in {"a", "b"} |-> IF x = "a" THEN 1 ELSE 3]

---------------------------------------------------------------------------
(* The snapshot sequence (SpecSeq) *)

(* The number of snapshots held by the first j runs of S. *)
RECURSIVE PrefixLen(_, _)
PrefixLen(S, j) == IF j = 0 THEN 0 ELSE PrefixLen(S, j - 1) + S[j][2]

(* A sequence as the data model asks for it: positive run lengths that     *)
(* add up to the running total.                                            *)
WellFormed ==
    /\ \A i \in DOMAIN snapshots : snapshots[i][2] >= 1
    /\ total_snapshots = PrefixLen(snapshots, Len(snapshots))

(* C13: no two adjacent runs hold structurally equal graphs. *)
C13_NoEqualNeighbours ==
    \A i \in 1..(Len(snapshots) - 1) :
        ~ (snapshots[i][1] = snapshots[i + 1][1])

(* C14: total_snapshots, the value of len(), is the sum of the run lengths. *)
C14_LengthIsSumOfRuns ==
    total_snapshots = PrefixLen(snapshots, Len(snapshots))

(* C15: every run has length at least 1. *)
C15_RunsAtLeastOne ==
    \A i \in DOMAIN snapshots : snapshots[i][2] >= 1

(* C16: add_snapshot without an index, on any sequence: when the sequence  *)
(* is non-empty and its last graph equals the new one the last run grows   *)
(* by one and the number of runs stays; otherwise a run (graph, 1) is put  *)
(* at the end and the runs before it stay; len() grows by exactly 1.       *)
C16_AppendGrowsOrAdds ==
    [][\A ebunch \in EbunchInputs :
         add_snapshot(ebunch, NoneArg) =>
             LET g == Graph(ebunch)
                 n == Len(snapshots)
             IN  /\ IF n > 0 /\ snapshots[n][1] = g
                    THEN /\ Len(snapshots') = n
                         /\ snapshots'[n] = <<g, snapshots[n][2] + 1>>
                         /\ SubSeq(snapshots', 1, n - 1) = SubSeq(snapshots, 1, n - 1)
                    ELSE snapshots' = snapshots \o << <<g, 1>> >>
                 /\ total_snapshots' = total_snapshots + 1]_vars

(* C16 witness: one graph appended MaxTotal times to the empty sequence,   *)
(* from ebunches that differ as lists: a single run of that length.        *)
C16_Witness ==
    /\ ret.op = "add_snapshot"
    /\ Len(snapshots) = 1
    /\ snapshots[1] = <<Graph(<< <<2, 1, 1>> >>), MaxTotal>>
    /\ total_snapshots = MaxTotal

(* C17: every insert at an index >= 0 that returns, and every add_snapshot *)
(* at an index >= 1 that returns, adds exactly the run length (1 for       *)
(* add_snapshot) to len().                                                 *)
C17_InsertAddsRunLength ==
    [][/\ \A g \in GraphInputs, snap_len \in SnapLens, num_in_seq \in 0..(MaxTotal + 1) :
             insert(g, snap_len, num_in_seq) /\ ret'.outcome = "return" /\ WellFormed
                 /\ num_in_seq \in 1..total_snapshots
                 => total_snapshots' = total_snapshots + snap_len
       /\ \A ebunch \in EbunchInputs, num_in_seq \in 1..(MaxTotal + 1) :
             add_snapshot(ebunch, <<num_in_seq>>) /\ ret'.outcome = "return" /\ WellFormed
                 /\ num_in_seq \in 1..total_snapshots
                 => total_snapshots' = total_snapshots + 1]_vars

(* C18: a call with a negative index fails with IndexOutOfRange and leaves *)
(* the runs and len() as they were.                                        *)
C18_NegativeIndexRejected ==
    [][/\ \A g \in GraphInputs, snap_len \in SnapLens :
             insert(g, snap_len, -1) =>
                 ret'.outcome = "IndexOutOfRange" /\ UNCHANGED seq
       /\ \A ebunch \in EbunchInputs :
             add_snapshot(ebunch, <<-1>>) =>
                 ret'.outcome = "IndexOutOfRange" /\ UNCHANGED seq]_vars

(* C19: on a well-formed sequence, an insert whose index lies strictly     *)
(* inside run j, at offset o with 0 < o < L, replaces that run by          *)
(* (same graph, o), (new graph, snap_len), (same graph, L - o) and leaves  *)
(* the other runs as they were.                                            *)
C19_InsideRunSplits ==
    [][\A g \in GraphInputs, snap_len \in SnapLens, j \in DOMAIN snapshots :
         \A o \in 1..(snapshots[j][2] - 1) :
             WellFormed /\ insert(g, snap_len, PrefixLen(snapshots, j - 1) + o) =>
                 snapshots' =
                     SubSeq(snapshots, 1, j - 1)
                         \o << <<snapshots[j][1], o>>, <<g, snap_len>>,
                               <<snapshots[j][1], snapshots[j][2] - o>> >>
                         \o SubSeq(snapshots, j + 1, Len(snapshots))]_vars

(* C20: on a well-formed sequence, an insert whose index is the boundary   *)
(* at the end of run j puts exactly one run (graph, snap_len) right after  *)
(* run j, changes no other run, and returns.                               *)
C20_BoundaryInsertsOneRun ==
    [][\A g \in GraphInputs, snap_len \in SnapLens, j \in DOMAIN snapshots :
         WellFormed /\ insert(g, snap_len, PrefixLen(snapshots, j)) =>
             /\ ret'.outcome = "return"
             /\ snapshots' =
                    SubSeq(snapshots, 1, j) \o << <<g, snap_len>> >>
                        \o SubSeq(snapshots, j + 1, Len(snapshots))]_vars

(* C21: on a well-formed sequence, empty or not, add_snapshot at an index  *)
(* beyond the end returns without an error; the last run, when there is    *)
(* one, is lengthened by the gap and the run (graph, 1) is put at the end. *)
C21_BeyondEndExtendsAndAppends ==
    [][\A ebunch \in EbunchInputs, num_in_seq \in 2..(MaxTotal + 1) :
         WellFormed /\ num_in_seq > total_snapshots + 1
             /\ add_snapshot(ebunch, <<num_in_seq>>) =>
                 LET n == Len(snapshots)
                     gap == num_in_seq - total_snapshots - 1
                 IN  /\ ret'.outcome = "return"
                     /\ Len(snapshots') = n + 1
                     /\ snapshots'[n + 1] = <<Graph(ebunch), 1>>
                     /\ n > 0 => snapshots'[n] = <<snapshots[n][1], snapshots[n][2] + gap>>
                     /\ SubSeq(snapshots', 1, n - 1) = SubSeq(snapshots, 1, n - 1)]_vars

(* C26: on a well-formed sequence, an insert at an index in 0..len()       *)
(* leaves its loop and returns, and the list has grown by at most the two  *)
(* runs of a split (the inserted run and the suffix).                      *)
C26_InsertTerminates ==
    [][\A g \in GraphInputs, snap_len \in SnapLens, num_in_seq \in 0..MaxTotal :
         WellFormed /\ num_in_seq <= total_snapshots
             /\ insert(g, snap_len, num_in_seq) =>
                 /\ ret'.outcome = "return"
                 /\ Len(snapshots') <= Len(snapshots) + 2]_vars

(* C27: on a well-formed sequence of two or more runs, an insert at an     *)
(* index in 1..len() that returns has put the run (graph, snap_len) where  *)
(* exactly num_in_seq snapshots precede it.                                *)
C27_InsertedAtIndex ==
    [][\A g \in GraphInputs, snap_len \in SnapLens, num_in_seq \in 1..MaxTotal :
         WellFormed /\ Len(snapshots) >= 2 /\ num_in_seq <= total_snapshots
             /\ insert(g, snap_len, num_in_seq) /\ ret'.outcome = "return" =>
                 \E i \in DOMAIN snapshots' :
                     /\ snapshots'[i] = <<g, snap_len>>
                     /\ PrefixLen(snapshots', i - 1) = num_in_seq]_vars

---------------------------------------------------------------------------
(* Reading the snapshot sequence (SpecQuery, SpecCursors) *)

(* The runs of S that cover the logical index i (counted from 0). *)
Covering(S, i) ==
    {j \in DOMAIN S : PrefixLen(S, j - 1) <= i /\ i < PrefixLen(S, j)}

(* C22: for 0 <= start <= min(end, len()), the generator over [start, end) *)
(* yields min(end, len()) - start graphs, the j-th (from 0) being the      *)
(* graph of the run that covers the logical index start + j.               *)
C22_GeneratorYieldsRange ==
    (ret.op = "generator" /\ ret.start <= Min({ret.end, total_snapshots})) =>
        /\ Len(ret.views) = Min({ret.end, total_snapshots}) - ret.start
        /\ \A j \in DOMAIN ret.views :
               \E r \in Covering(snapshots, ret.start + j - 1) :
                   ret.views[j] = snapshots[r][1]

(* C23: get on a non-empty list of indices, all below len(), returns       *)
(* without raising, and its i-th graph is the graph of the run covering    *)
(* the i-th requested index.                                               *)
C23_GetReturnsRequested ==
    (/\ ret.op = "get"
     /\ \A i \in DOMAIN ret.sbunch : ret.sbunch[i] < total_snapshots) =>
        /\ ret.outcome = "return"
        /\ \A i \in DOMAIN ret.sbunch :
               \E r \in Covering(snapshots, ret.sbunch[i]) :
                   ret.graph_list[i] = snapshots[r][1]

(* C25: subgraph raises SizeMismatch whenever the number of node lists     *)
(* differs from the number of snapshots selected.                          *)
C25_SubgraphSizeMismatch ==
    (ret.op = "subgraph" /\ ret.lists # ret.selected) =>
        ret.outcome = "SizeMismatch"

(* The cursor as specified, on the list S from run i (counted from 1)      *)
(* with `traveled` positions behind it: a run is skipped whole while       *)
(* traveled + length <= start, otherwise it is walked position by          *)
(* position, its graph yielded for each position in [start, end), until    *)
(* traveled = end or the runs are exhausted.                               *)
RECURSIVE ReferenceCursor(_, _, _, _, _, _)
ReferenceCursor(S, start, end, traveled, i, k) ==
    IF i > Len(S) \/ traveled >= end THEN <<>>
    ELSE IF k = 0 /\ traveled + S[i][2] <= start
    THEN ReferenceCursor(S, start, end, traveled + S[i][2], i + 1, 0)
    ELSE IF k >= S[i][2]
    THEN ReferenceCursor(S, start, end, traveled, i + 1, 0)
    ELSE (IF traveled >= start THEN <<S[i][1]>> ELSE <<>>)
             \o ReferenceCursor(S, start, end, traveled + 1, i, k + 1)

(* C28: for 0 <= start <= end the generator, which skips a run only when   *)
(* traveled + length < start, yields what the specified cursor yields.     *)
C28_SkipRuleRefines ==
    ret.op = "generator" =>
        ret.views = ReferenceCursor(snapshots, ret.start, ret.end, 0, 1, 0)

(* C28 witness: a window that starts exactly where the second run starts,  *)
(* where the two skip rules part, and yields from the second run on.       *)
C28_Witness ==
    /\ ret.op = "generator"
    /\ Len(snapshots) >= 2
    /\ snapshots[1][2] >= 1
    /\ ret.start = snapshots[1][2]
    /\ ret.views # <<>>
    /\ ret.views[1] = snapshots[2][1]
    /\ snapshots[2][1] # snapshots[1][1]

(* What the generator kept under the name c yields when pulled alone. *)
PulledAlone(c) ==
    Drain(snapshots, NewFrame(cursors[c].frame.start, cursors[c].frame.end))

(* C24: with two generators over one unmodified sequence, pulled in any    *)
(* order, every next() leaves the runs and len() as they were, what a      *)
(* generator has yielded so far is the beginning of what it yields when    *)
(* pulled alone, and all of it once the generator has finished; a          *)
(* generator made again over the same range starts over.                   *)
C24_CursorsIndependent ==
    [][/\ \A c \in CursorIds :
             Pull(c) =>
                 /\ UNCHANGED seq
                 /\ Len(cursors'[c].out) <= Len(PulledAlone(c))
                 /\ cursors'[c].out = SubSeq(PulledAlone(c), 1, Len(cursors'[c].out))
                 /\ cursors'[c].frame.pc = "done" => cursors'[c].out = PulledAlone(c)
                 /\ \A d \in DOMAIN cursors : d # c => cursors'[d] = cursors[d]
       /\ \A c \in CursorIds, w \in PullWindows :
             NewCursor(c, w[1], w[2]) =>
                 /\ UNCHANGED seq
                 /\ cursors'[c].out = <<>>
                 /\ Drain(snapshots, cursors'[c].frame) = generator(w[1], w[2])]_vars

(* C24 witness: both generators are part-way through different positions   *)
(* of a sequence of two runs, each having yielded, and the second was      *)
(* pulled last.                                                            *)
C24_Witness ==
    /\ ret.op = "next"
    /\ DOMAIN cursors = CursorIds
    /\ Len(snapshots) >= 2
    /\ cursors[1].frame.pc = "suspended" /\ cursors[2].frame.pc = "suspended"
    /\ Len(cursors[1].out) >= 2 /\ Len(cursors[2].out) >= 1
    /\ cursors[1].frame.snaps_traveled > cursors[2].frame.snaps_traveled
    /\ cursors[1].frame.start = cursors[2].frame.start

---------------------------------------------------------------------------
(* The tables of the store (Spec) and the coverage of the snapshots (SpecView) *)

(* C29: the keys of the adjacency table are the keys of the node table:    *)
(* no key of _adj is anything but a node id, and every endpoint of a       *)
(* stored interval is a key of both tables.                                *)
C29_AdjKeysAreNodeKeys ==
    /\ DOMAIN adj = DOMAIN node
    /\ DOMAIN adjIv = {}
    /\ \A iv \in tree : {IvU(iv), IvV(iv)} \subseteq DOMAIN node \cap DOMAIN adj

(* The stored interval iv meets the j-th window returned by to_snapshots   *)
(* (windows are in units of 1/k).                                          *)
MeetsWindow(iv, j) ==
    /\ IvBegin(iv) * ret.k < ret.windows[j][2]
    /\ IvEnd(iv) * ret.k > ret.windows[j][1]

(* C30: when to_snapshots(k) returns on a store with an edge, every stored *)
(* interval is in at least one of the k views, in exactly the views whose  *)
(* window it meets, and the indices of those views have no gap.            *)
C30_EveryEdgeInSomeSnapshot ==
    (ret.op = "to_snapshots" /\ ret.outcome = "return" /\ tree # {}) =>
        \A iv \in tree :
            /\ \E j \in 1..ret.k : EdgePair(iv) \in ret.snapshots[j].edges
            /\ \A j \in 1..ret.k :
                   MeetsWindow(iv, j) => EdgePair(iv) \in ret.snapshots[j].edges
            /\ \A a, b, c \in 1..ret.k :
                   (a < b /\ b < c /\ MeetsWindow(iv, a) /\ MeetsWindow(iv, c))
                       => MeetsWindow(iv, b)

(* C30 witness: two views of a store of two edges between different      *)
(* nodes, one interval in both views and the other in the last one only.   *)
C30_Witness ==
    /\ ret.op = "to_snapshots" /\ ret.outcome = "return"
    /\ ret.k = 2
    /\ \E iv, jv \in tree :
           /\ MeetsWindow(iv, 1) /\ MeetsWindow(iv, 2)
           /\ ~ MeetsWindow(jv, 1) /\ MeetsWindow(jv, 2)
           /\ EdgePair(iv) # EdgePair(jv)
           /\ EdgePair(jv) \notin ret.snapshots[1].edges
           /\ EdgePair(jv) \in ret.snapshots[2].edges

(* C31: to_snapshots with an integer k >= 2 on a store without edges       *)
(* (empty, or nodes only) returns k views, each without nodes and edges.   *)
C31_EdgelessStoreGivesEmptyViews ==
    (ret.op = "to_snapshots" /\ tree = {} /\ ret.outcome # "InvalidArgument") =>
        /\ ret.outcome = "return"
        /\ Len(ret.snapshots) = ret.k
        /\ \A j \in 1..ret.k :
               DOMAIN ret.snapshots[j].nodes = {} /\ ret.snapshots[j].edges = {}

---------------------------------------------------------------------------
(* The legacy DynamicGraph (SpecDynamic) *)

(* How many times e occurs in the list l. *)
Occurrences(l, e) == Cardinality({i \in DOMAIN l : l[i] = e})

(* The edge objects made by the add_edge calls for the pair {u, v}. *)
EdgesAddedBetween(u, v) ==
    {e \in {dyn.start_edges[i] : i \in DOMAIN dyn.start_edges} :
         {e.u, e.v} = {u, v}}

(* C32: adj[u][v] and adj[v][u] are the same list; every edge added        *)
(* between u and v occurs exactly once in it, in start_edges and in        *)
(* end_edges, and its length is the number of add_edge calls for {u, v}.   *)
C32_EdgeListedOnce ==
    \A u \in DOMAIN dyn.adj :
        \A v \in DOMAIN dyn.adj[u] :
            /\ u \in DOMAIN dyn.adj[v]
            /\ dyn.adj[u][v] = dyn.adj[v][u]
            /\ Len(dyn.lists[dyn.adj[u][v]]) = Cardinality(EdgesAddedBetween(u, v))
            /\ \A e \in EdgesAddedBetween(u, v) :
                   /\ Occurrences(dyn.lists[dyn.adj[u][v]], e) = 1
                   /\ Occurrences(dyn.start_edges, e) = 1
                   /\ Occurrences(dyn.end_edges, e) = 1

=============================================================================
